---- MODULE Spec2Model ----
(***************************************************************************)
(* Model of src/fixed_rust_trader.rs: the polling loop of                  *)
(* run_fixed_detection, the block scan find_real_new_pools, the classifier *)
(* analyze_pool_creation and the executor execute_real_purchase.           *)
(*                                                                         *)
(* Address strings are pairs <<bytes, upper>>: bytes names the 20-byte     *)
(* value, upper tells whether the hexadecimal text has upper-case digits.  *)
(* A topic word is a pair <<pad, bytes>>: the 12 high bytes and the 20 low *)
(* bytes of the 32-byte word.                                              *)
(***************************************************************************)
EXTENDS Integers, Sequences, FiniteSets, TLC

(***************************************************************************)
(* Bounds of the model.                                                    *)
(***************************************************************************)
\* highest block height the chain client reports
MaxHeight == 3
\* highest start-up height (the height read by FixedNewPoolTrader::new)
MaxStart == 1
\* most logs one get_logs call returns
MaxLogs == 2
\* readings of the monotonic clock are 0..MaxTime
MaxTime == 1

Heights == 0..MaxHeight
Times == 0..MaxTime

(***************************************************************************)
(* Strings and byte values.                                                *)
(***************************************************************************)
\* str::to_lowercase on the text of an address
to_lowercase(s) == <<s[1], FALSE>>

\* format!("0x{}", hex::encode(bytes)): hex::encode writes lower-case digits
hex_encode(bytes) == <<bytes, FALSE>>

\* format!("{:?}", log.address): the Debug form of H160 is full lower-case hex
format_address(bytes) == <<bytes, FALSE>>

\* &topic.as_bytes()[12..]: the 20 low bytes of a topic word
low_bytes(word) == word[2]

WETH_ADDRESS == <<"weth", FALSE>>

KNOWN_TOKENS ==
    << <<"usdc", FALSE>>, <<"weth", FALSE>>, <<"dai", FALSE>>, <<"usdbc", FALSE>>,
       <<"cbeth", FALSE>>, <<"cbbtc", FALSE>>, <<"aero", FALSE>> >>

PAIR_CREATED_SIG == <<"sig", "PairCreated">>
POOL_CREATED_V3_SIG == <<"sig", "PoolCreated">>

\* the zero hash, H256::default()
ZeroHash == "0x00"

\* KNOWN_TOKENS.iter().map(|addr| addr.to_lowercase()).collect()
collect_known(list) == { to_lowercase(list[i]) : i \in 1..Len(list) }

(***************************************************************************)
(* analyze_pool_creation.  Option<RealNewPool> is a sequence of length 0   *)
(* (None) or 1 (Some).                                                     *)
(***************************************************************************)
None == << >>
Some(e) == << e >>

\* the test of lines 124 and 126: the token is not known and is not WETH
is_new_token_NoWeth(token, known) == token \notin known

is_new_token(token, known) ==
    token \notin known /\ token # to_lowercase(WETH_ADDRESS)

\* log.transaction_hash.unwrap_or_default(), Debug-formatted
tx_hash_of(log) == IF log.transaction_hash = None THEN ZeroHash
                   ELSE log.transaction_hash[1]

analyze_pool_creation_BFirst(log, block_number, known, processed, now) ==
    IF Len(log.topics) >= 3
    THEN LET token0 == to_lowercase(hex_encode(low_bytes(log.topics[2])))
             token1 == to_lowercase(hex_encode(low_bytes(log.topics[3])))
             pair_address == to_lowercase(format_address(log.address))
             mk(t) == Some([new_token_address |-> t,
                            pair_address |-> pair_address,
                            block_number |-> block_number,
                            tx_hash |-> tx_hash_of(log),
                            detection_time |-> now])
         IN  IF is_new_token(token1, known)
             THEN IF pair_address \in processed THEN None ELSE mk(token1)
             ELSE IF is_new_token(token0, known)
             THEN IF pair_address \in processed THEN None ELSE mk(token0)
             ELSE None
    ELSE None

analyze_pool_creation_ClockInHash(log, block_number, known, processed, now) ==
    IF Len(log.topics) >= 3
    THEN LET token0 == to_lowercase(hex_encode(low_bytes(log.topics[2])))
             token1 == to_lowercase(hex_encode(low_bytes(log.topics[3])))
             pair_address == to_lowercase(format_address(log.address))
             mk(t) == Some([new_token_address |-> t,
                            pair_address |-> pair_address,
                            block_number |-> block_number,
                            tx_hash |-> IF now = 0 THEN tx_hash_of(log) ELSE ZeroHash,
                            detection_time |-> now])
         IN  IF is_new_token(token0, known)
             THEN IF pair_address \in processed THEN None ELSE mk(token0)
             ELSE IF is_new_token(token1, known)
             THEN IF pair_address \in processed THEN None ELSE mk(token1)
             ELSE None
    ELSE None

\* topics[1] and topics[2] of the code are topics[2] and topics[3] here:
\* sequences start at 1
analyze_pool_creation(log, block_number, known, processed, now) ==
    IF Len(log.topics) >= 3
    THEN LET token0 == to_lowercase(hex_encode(low_bytes(log.topics[2])))
             token1 == to_lowercase(hex_encode(low_bytes(log.topics[3])))
             pair_address == to_lowercase(format_address(log.address))
             mk(t) == Some([new_token_address |-> t,
                            pair_address |-> pair_address,
                            block_number |-> block_number,
                            tx_hash |-> tx_hash_of(log),
                            detection_time |-> now])
         IN  IF is_new_token(token0, known)
             THEN IF pair_address \in processed THEN None ELSE mk(token0)
             ELSE IF is_new_token(token1, known)
             THEN IF pair_address \in processed THEN None ELSE mk(token1)
             ELSE None
    ELSE None

(***************************************************************************)
(* find_real_new_pools: one get_logs call, then every log classified in    *)
(* the order the chain client gave.  res is the outcome of get_logs, times *)
(* the clock readings of the successive Instant::now() calls.              *)
(***************************************************************************)
RECURSIVE classify_from(_, _, _, _, _, _)
classify_from(i, logs, block_number, known, processed, times) ==
    IF i > Len(logs) THEN << >>
    ELSE analyze_pool_creation(logs[i], block_number, known, processed, times[i])
         \o classify_from(i + 1, logs, block_number, known, processed, times)

find_real_new_pools_AbortOnShort(res, block_number, known, processed, times) ==
    IF res.ok /\ \A i \in 1..Len(res.logs) : Len(res.logs[i].topics) >= 3
    THEN classify_from(1, res.logs, block_number, known, processed, times)
    ELSE << >>

find_real_new_pools(res, block_number, known, processed, times) ==
    IF res.ok
    THEN classify_from(1, res.logs, block_number, known, processed, times)
    ELSE << >>

\* lines 88-91: the filter of the log query
pair_created_filter(block_number) ==
    [from_block |-> block_number, to_block |-> block_number,
     topic0 |-> PAIR_CREATED_SIG]

\* line 93, provider.get_logs: the logs of the chain, in chain order, that lie in
\* the block range of the filter and whose first topic is the one of the filter
get_logs(chain, filter) ==
    SelectSeq(chain, LAMBDA l : /\ l.block_number >= filter.from_block
                                /\ l.block_number <= filter.to_block
                                /\ Len(l.topics) >= 1
                                /\ l.topics[1] = filter.topic0)

(***************************************************************************)
(* validate_token: symbol and name are the outcomes of the two contract   *)
(* calls, "err" (the call failed), "empty" or "text".                      *)
(***************************************************************************)
CallResults == {"err", "empty", "text"}

validate_token(symbol, name) ==
    IF symbol = "err" THEN "Err"
    ELSE IF name = "err" THEN "Err"
    ELSE IF symbol = "empty" \/ name = "empty" THEN "Err"
    ELSE "Ok"

(***************************************************************************)
(* The pieces of run_fixed_detection and execute_real_purchase.            *)
(***************************************************************************)
\* line 303: if current_block > self.last_block
should_scan_NotEqual(current, last) == current # last

should_scan_Lagging(current, last) == current > last + 1

should_scan(current, last) == current > last

\* line 304: the first block of (self.last_block + 1)..=current_block
first_block_SkipOne(last) == last + 2

first_block(last) == last + 1

\* line 318: self.last_block = current_block
next_cursor(current) == current

\* line 167: self.processed_pools.insert(pool.pair_address.clone())
mark_processed_Forget(processed, pair_address) == processed

mark_processed(processed, pair_address) == processed \cup {pair_address}

\* lines 171-180: the swap is built after a successful validation; a failed one
\* ends the execution
after_validation_Ignore(v) == "Building"

after_validation(v) == IF v = "Ok" THEN "Building" ELSE "Idle"

\* line 189: the ? operator ends the execution when get_gas_price fails
after_gas_price(g) == IF g = "Ok" THEN "Broadcasting" ELSE "Idle"

\* lines 224-257: the receipt is awaited after a successful tx.send; a failed one
\* is printed and ends the execution
after_send_Retry(sent) == IF sent = "Ok" THEN "Confirming" ELSE "Broadcasting"

after_send(sent) == IF sent = "Ok" THEN "Confirming" ELSE "Idle"

\* lines 309-315: an Err of execute_real_purchase is printed and the for loop
\* goes on with the pools that remain
purchase_awaited_Spawned(st) == TRUE

\* line 312, `.await` on execute_real_purchase: the driver goes on to the next
\* pool or the next block only when the call has returned
purchase_awaited(st) == st = "Idle"

pools_after_purchase_StopOnErr(result, rest) ==
    IF result = "Err" THEN << >> ELSE rest

pools_after_purchase(result, rest) == rest

(***************************************************************************)
(* Inputs: what the chain client can answer.                               *)
(***************************************************************************)
PairBytes == {"pairA", "pairB"}
TokenBytes == {"weth", "usdc", "new1", "new2"}
ChainTokenBytes == {"weth", "new1"}
Pads == {"zero", "junk"}

\* a 32-byte topic word carrying an address
Words == Pads \X TokenBytes

TopicLists ==
    {<<PAIR_CREATED_SIG>>}
    \cup {<<PAIR_CREATED_SIG, a>> : a \in Words}
    \cup {<<PAIR_CREATED_SIG, a, b>> : a \in Words, b \in Words}
    \cup {<<PAIR_CREATED_SIG, a, b, <<"zero", "new1">> >> : a \in Words, b \in Words}

\* every log the classifier is tried on
Logs == [address : PairBytes, topics : TopicLists,
         transaction_hash : {None, Some("0xt1")}]

\* the logs the scanned blocks hold: they passed the topic0 filter of line 91,
\* their addresses are left-padded with zeros and they belong to a transaction
ChainTopicLists ==
    {<<PAIR_CREATED_SIG>>}
    \cup {<<PAIR_CREATED_SIG, <<"zero", a>>, <<"zero", b>> >> :
             a \in ChainTokenBytes, b \in ChainTokenBytes}

ChainLogs == [address : PairBytes, topics : ChainTopicLists,
              transaction_hash : {Some("0xt1")}]

RECURSIVE SeqsUpTo(_, _)
SeqsUpTo(S, n) ==
    IF n = 0 THEN {<< >>}
    ELSE LET shorter == SeqsUpTo(S, n - 1)
         IN  shorter \cup {Append(q, x) : q \in {r \in shorter : Len(r) = n - 1}, x \in S}

\* the readings of a monotonic clock over n successive calls, drawn from T
ClockReadings(n, T) ==
    {t \in [1..n -> T] : \A i \in 1..n, j \in 1..n : i <= j => t[i] <= t[j]}

\* the clock readings tried in the polling loop: detection_time is only printed
ScanTimes == {0}

PairStrings == {format_address(p) : p \in PairBytes}

\* configured known-token lists the classifier is tried with
ConfigStrings == {<<"usdc", FALSE>>, <<"usdc", TRUE>>, <<"weth", FALSE>>, <<"new1", FALSE>>}
ConfigLists == SeqsUpTo(ConfigStrings, 2)

\* the signature of an event that creates no pool
TRANSFER_SIG == <<"sig", "Transfer">>

\* the logs of the chain around block n the scan is tried on: of three event
\* signatures, with or without the two address topics, in block n or the next
ScanTopicLists ==
    UNION { {<<sig>>, <<sig, <<"zero", "new1">>, <<"zero", "weth">> >>} :
               sig \in {PAIR_CREATED_SIG, POOL_CREATED_V3_SIG, TRANSFER_SIG} }

BlockLogs(n) == [address : PairBytes, topics : ScanTopicLists,
                 transaction_hash : {Some("0xt1")}, block_number : {n, n + 1}]

NoLog == [address |-> "none", topics |-> << >>, transaction_hash |-> None]

(***************************************************************************)
(* State.                                                                  *)
(***************************************************************************)
VARIABLES
    pc,               \* position: "head", "scan", "exec", "exited"; in the checks of
                      \* the classifier "classify", "classified", "reclassified",
                      \* "pools-found"
    known_tokens,     \* FixedNewPoolTrader.known_tokens
    processed_pools,  \* FixedNewPoolTrader.processed_pools
    last_block,       \* FixedNewPoolTrader.last_block
    current_block,    \* local of run_fixed_detection
    block_num,        \* loop variable of line 304
    real_pools,       \* the pools of line 307 the for loop of line 309 has not reached
    pool,             \* the argument of the running execute_real_purchase
    stage,            \* position inside execute_real_purchase
    start_block,      \* history: the height read at start-up
    tick_from,        \* history: last_block when the latest scanning tick began
    tick_err,         \* history: the latest height fetch failed
    scanned,          \* history: the blocks find_real_new_pools was called for
    fetch_failed,     \* history: the blocks whose get_logs failed
    exec_count,       \* history: executions started, per pair address
    solo,             \* history: pair addresses found as the one log of a block
    replayed,         \* history: pair addresses of solo a later scan returned again
    block_events,     \* history: what find_real_new_pools returned for block_num
    handed,           \* history: the events of block_num handed to the executor
    outcome,          \* history: how the latest execution of block_num ended
    trace,            \* history: the stages the latest execution went through, with results
    rejected,         \* history: pair addresses of the events that failed validation
    sends,            \* history: calls of tx.send for the events of block_num
    log_in,           \* classifier check: the log given
    bn_in,            \* classifier check: the block number given
    now_in,           \* classifier check: the clock reading
    classified,       \* classifier check: the result
    now2_in,          \* classifier check: the clock reading of a second call
    classified2,      \* classifier check: the result of the second call
    chain_in,         \* scan check: the logs of the chain
    fetched           \* scan check: what get_logs answered

vars == <<pc, known_tokens, processed_pools, last_block, current_block, block_num,
          real_pools, pool, stage, start_block, tick_from, tick_err, scanned,
          fetch_failed, exec_count, solo, replayed, block_events, handed, outcome,
          trace, rejected, sends,
          log_in, bn_in, now_in, classified, now2_in, classified2, chain_in, fetched>>

classifier_vars == <<log_in, bn_in, now_in, classified, now2_in, classified2,
                     chain_in, fetched>>
block_history == <<block_events, handed, outcome>>
exec_history == <<trace, rejected, sends>>

\* FixedNewPoolTrader::new, lines 57-78
Init ==
    /\ pc = "head"
    /\ known_tokens = collect_known(KNOWN_TOKENS)
    /\ processed_pools = {}
    /\ start_block \in 0..MaxStart
    /\ last_block = start_block
    /\ current_block = start_block
    /\ block_num = start_block
    /\ real_pools = << >>
    /\ pool = None
    /\ stage = "Idle"
    /\ tick_from = start_block
    /\ tick_err = FALSE
    /\ scanned = << >>
    /\ fetch_failed = {}
    /\ exec_count = [p \in PairStrings |-> 0]
    /\ solo = {}
    /\ replayed = {}
    /\ block_events = << >>
    /\ handed = << >>
    /\ outcome = "none"
    /\ trace = << >>
    /\ rejected = {}
    /\ sends = 0
    /\ log_in = NoLog
    /\ bn_in = 0
    /\ now_in = 0
    /\ classified = None
    /\ now2_in = 0
    /\ classified2 = None
    /\ chain_in = << >>
    /\ fetched = << >>

(***************************************************************************)
(* run_fixed_detection.                                                    *)
(***************************************************************************)
\* line 301: get_block_number fails and the ? operator returns the error
PollHeightErr ==
    /\ pc = "head"
    /\ pc' = "exited"
    /\ tick_err' = TRUE
    /\ UNCHANGED <<known_tokens, processed_pools, last_block, current_block, block_num,
                   real_pools, pool, stage, start_block, tick_from, scanned,
                   fetch_failed, exec_count, solo, replayed, block_history, exec_history,
                   classifier_vars>>

\* lines 301-304 and 318-321: the height is read; the for loop is entered when
\* its range is not empty, otherwise the tick ends (with the cursor assigned
\* when the test of line 303 passed)
PollHeight ==
    /\ pc = "head"
    /\ \E h \in Heights :
        /\ current_block' = h
        /\ tick_err' = FALSE
        /\ IF should_scan(h, last_block)
           THEN IF first_block(last_block) <= h
                THEN /\ pc' = "scan"
                     /\ block_num' = first_block(last_block)
                     /\ tick_from' = last_block
                     /\ UNCHANGED last_block
                ELSE /\ pc' = "head"
                     /\ last_block' = next_cursor(h)
                     /\ UNCHANGED <<block_num, tick_from>>
           ELSE /\ pc' = "head"
                /\ UNCHANGED <<last_block, block_num, tick_from>>
    /\ UNCHANGED <<known_tokens, processed_pools, real_pools, pool, stage, start_block,
                   scanned, fetch_failed, exec_count, solo, replayed, block_history,
                   exec_history, classifier_vars>>

\* line 307 with get_logs failing (line 93 takes no branch)
ScanBlockErr ==
    /\ pc = "scan"
    /\ pc' = "exec"
    /\ real_pools' = find_real_new_pools([ok |-> FALSE, logs |-> << >>], block_num,
                                         known_tokens, processed_pools, << >>)
    /\ block_events' = real_pools'
    /\ handed' = << >>
    /\ outcome' = "none"
    /\ scanned' = Append(scanned, block_num)
    /\ fetch_failed' = fetch_failed \cup {block_num}
    /\ UNCHANGED <<known_tokens, processed_pools, last_block, current_block, block_num,
                   pool, stage, start_block, tick_from, tick_err, exec_count, solo,
                   replayed, exec_history, classifier_vars>>

\* line 307 with get_logs answering
ScanBlock ==
    /\ pc = "scan"
    /\ \E logs \in SeqsUpTo(ChainLogs, MaxLogs) :
       \E times \in ClockReadings(Len(logs), ScanTimes) :
        /\ real_pools' = find_real_new_pools([ok |-> TRUE, logs |-> logs], block_num,
                                             known_tokens, processed_pools, times)
        /\ solo' = IF Len(logs) = 1 /\ Len(real_pools') = 1
                   THEN solo \cup {real_pools'[1].pair_address}
                   ELSE solo
        /\ replayed' = replayed \cup
              {p \in solo : \E i \in 1..Len(logs) :
                   /\ format_address(logs[i].address) = p
                   /\ Len(logs[i].topics) >= 3
                   /\ \E k \in 2..3 : is_new_token(hex_encode(low_bytes(logs[i].topics[k])),
                                                    known_tokens)}
    /\ pc' = "exec"
    /\ block_events' = real_pools'
    /\ handed' = << >>
    /\ outcome' = "none"
    /\ scanned' = Append(scanned, block_num)
    /\ fetch_failed' = fetch_failed \ {block_num}
    /\ UNCHANGED <<known_tokens, processed_pools, last_block, current_block, block_num,
                   pool, stage, start_block, tick_from, tick_err, exec_count,
                   exec_history, classifier_vars>>

\* lines 309-312 and 156-167: the next pool is handed to execute_real_purchase,
\* which marks its pair address as processed
ExecuteStart ==
    /\ pc = "exec"
    /\ purchase_awaited(stage)
    /\ real_pools # << >>
    /\ LET p == Head(real_pools)
       IN  /\ pool' = Some(p)
           /\ processed_pools' = mark_processed(processed_pools, p.pair_address)
           /\ exec_count' = [exec_count EXCEPT ![p.pair_address] = @ + 1]
           /\ handed' = Append(handed, p)
    /\ real_pools' = Tail(real_pools)
    /\ stage' = "Validating"
    /\ trace' = << >>
    /\ UNCHANGED <<pc, known_tokens, last_block, current_block, block_num, start_block,
                   tick_from, tick_err, scanned, fetch_failed, solo, replayed,
                   block_events, outcome, rejected, sends, classifier_vars>>

\* execute_real_purchase returns result: the driver goes on (lines 312-315)
Return(result, how) ==
    /\ stage' = "Idle"
    /\ pool' = None
    /\ outcome' = how
    /\ real_pools' = pools_after_purchase(result, real_pools)

exec_frame == <<pc, known_tokens, processed_pools, last_block, current_block, block_num,
                start_block, tick_from, tick_err, scanned, fetch_failed, exec_count,
                solo, replayed, block_events, handed, classifier_vars>>

\* lines 170-180
ValidateToken ==
    /\ stage = "Validating"
    /\ \E symbol \in CallResults, name \in CallResults :
        LET v == validate_token(symbol, name)
        IN  /\ trace' = Append(trace, <<"Validating", v>>)
            /\ rejected' = IF v = "Ok" THEN rejected
                           ELSE rejected \cup {pool[1].pair_address}
            /\ IF after_validation(v) = "Idle"
               THEN Return("Ok", "validation-rejected")
               ELSE /\ stage' = after_validation(v)
                    /\ UNCHANGED <<pool, outcome, real_pools>>
    /\ UNCHANGED <<exec_frame, sends>>

\* lines 183-217: get_gas_price fails and the ? operator returns the error, or
\* the transaction is built
BuildSwap ==
    /\ stage = "Building"
    /\ \E g \in {"Ok", "Err"} :
        /\ trace' = Append(trace, <<"Building", g>>)
        /\ IF after_gas_price(g) = "Idle"
           THEN Return("Err", "gas-price-error")
           ELSE /\ stage' = after_gas_price(g)
                /\ UNCHANGED <<pool, outcome, real_pools>>
    /\ UNCHANGED <<exec_frame, rejected, sends>>

\* lines 224-229 and 253-256: tx.send
Broadcast ==
    /\ stage = "Broadcasting"
    /\ sends' = sends + 1
    /\ \E sent \in {"Ok", "Err"} :
        /\ trace' = Append(trace, <<"Broadcasting", sent>>)
        /\ IF after_send(sent) = "Idle"
           THEN Return("Ok", "broadcast-failed")
           ELSE /\ stage' = after_send(sent)
                /\ UNCHANGED <<pool, outcome, real_pools>>
    /\ UNCHANGED <<exec_frame, rejected>>

\* lines 232-251 and 259: the receipt wait gives a receipt with status 1, a
\* receipt with another status, no receipt, or fails
Confirm ==
    /\ stage = "Confirming"
    /\ \E receipt \in {"confirmed-success", "confirmed-failure", "no-receipt", "wait-error"} :
        /\ trace' = Append(trace, <<"Confirming", receipt>>)
        /\ Return("Ok", receipt)
    /\ UNCHANGED <<exec_frame, rejected, sends>>

\* lines 304 and 316-321: the pools of the block are done; the next block of the
\* range, or the cursor is set and the loop sleeps
BlockDone ==
    /\ pc = "exec"
    /\ purchase_awaited(stage)
    /\ real_pools = << >>
    /\ IF block_num < current_block
       THEN /\ block_num' = block_num + 1
            /\ pc' = "scan"
            /\ UNCHANGED last_block
       ELSE /\ last_block' = next_cursor(current_block)
            /\ pc' = "head"
            /\ UNCHANGED block_num
    /\ block_events' = << >>
    /\ handed' = << >>
    /\ outcome' = "none"
    /\ trace' = << >>
    /\ sends' = 0
    /\ UNCHANGED <<known_tokens, processed_pools, current_block, real_pools, pool, stage,
                   start_block, tick_from, tick_err, scanned, fetch_failed, exec_count,
                   solo, replayed, rejected, classifier_vars>>

Next ==
    \/ PollHeightErr
    \/ PollHeight
    \/ ScanBlockErr
    \/ ScanBlock
    \/ ExecuteStart
    \/ ValidateToken
    \/ BuildSwap
    \/ Broadcast
    \/ Confirm
    \/ BlockDone

Spec == Init /\ [][Next]_vars

\* lines 304-318, one tick of the loop once the height is known: every await
\* of the scan and of the executions returns
TickStep ==
    \/ ScanBlockErr
    \/ ScanBlock
    \/ ExecuteStart
    \/ ValidateToken
    \/ BuildSwap
    \/ Broadcast
    \/ Confirm
    \/ BlockDone

\* the loop of lines 300-322 keeps running: after the sleep of line 321 the
\* height is asked again, and the calls of a tick return
SpecLive == Init /\ [][Next]_vars /\ WF_vars(PollHeight) /\ WF_vars(TickStep)

(***************************************************************************)
(* The classifier on its own: any known-token list, any processed set, any *)
(* log.                                                                    *)
(***************************************************************************)
InitClassify ==
    /\ pc = "classify"
    /\ \E list \in ConfigLists : known_tokens = collect_known(list)
    /\ processed_pools \in SUBSET PairStrings
    /\ start_block = 0
    /\ last_block = 0
    /\ current_block = 0
    /\ block_num = 0
    /\ real_pools = << >>
    /\ pool = None
    /\ stage = "Idle"
    /\ tick_from = 0
    /\ tick_err = FALSE
    /\ scanned = << >>
    /\ fetch_failed = {}
    /\ exec_count = [p \in PairStrings |-> 0]
    /\ solo = {}
    /\ replayed = {}
    /\ block_events = << >>
    /\ handed = << >>
    /\ outcome = "none"
    /\ trace = << >>
    /\ rejected = {}
    /\ sends = 0
    /\ log_in = NoLog
    /\ bn_in = 0
    /\ now_in = 0
    /\ classified = None
    /\ now2_in = 0
    /\ classified2 = None
    /\ chain_in = << >>
    /\ fetched = << >>

\* one call of analyze_pool_creation
Classify ==
    /\ pc = "classify"
    /\ pc' = "classified"
    /\ \E log \in Logs, bn \in Heights, now \in Times :
        /\ log_in' = log
        /\ bn_in' = bn
        /\ now_in' = now
        /\ classified' = analyze_pool_creation(log, bn, known_tokens, processed_pools, now)
    /\ UNCHANGED <<known_tokens, processed_pools, last_block, current_block, block_num,
                   real_pools, pool, stage, start_block, tick_from, tick_err, scanned,
                   fetch_failed, exec_count, solo, replayed, block_history, exec_history,
                   now2_in, classified2, chain_in, fetched>>

\* a second call with the same log, block number and sets, at a later reading of
\* the monotonic clock
ClassifyAgain ==
    /\ pc = "classified"
    /\ pc' = "reclassified"
    /\ \E now2 \in Times :
        /\ now2 >= now_in
        /\ now2_in' = now2
        /\ classified2' = analyze_pool_creation(log_in, bn_in, known_tokens,
                                                processed_pools, now2)
    /\ UNCHANGED <<known_tokens, processed_pools, last_block, current_block, block_num,
                   real_pools, pool, stage, start_block, tick_from, tick_err, scanned,
                   fetch_failed, exec_count, solo, replayed, block_history, exec_history,
                   log_in, bn_in, now_in, classified, chain_in, fetched>>

\* one call of find_real_new_pools on a chain: lines 87-106
FindPools ==
    /\ pc = "classify"
    /\ pc' = "pools-found"
    /\ \E bn \in Heights :
       \E chain \in SeqsUpTo(BlockLogs(bn), MaxLogs) :
        LET logs == get_logs(chain, pair_created_filter(bn))
        IN  \E times \in ClockReadings(Len(logs), ScanTimes) :
             /\ bn_in' = bn
             /\ chain_in' = chain
             /\ fetched' = logs
             /\ real_pools' = find_real_new_pools([ok |-> TRUE, logs |-> logs], bn,
                                                  known_tokens, processed_pools, times)
    /\ UNCHANGED <<known_tokens, processed_pools, last_block, current_block, block_num,
                   pool, stage, start_block, tick_from, tick_err, scanned,
                   fetch_failed, exec_count, solo, replayed, block_history, exec_history,
                   log_in, now_in, classified, now2_in, classified2>>

NextClassify ==
    \/ Classify
    \/ ClassifyAgain
    \/ FindPools

SpecClassify == InitClassify /\ [][NextClassify]_vars

(***************************************************************************)
(* Properties.                                                             *)
(***************************************************************************)
Range(q) == { q[i] : i \in 1..Len(q) }

\* C1: over any run, execute_real_purchase is started at most once for each
\* pair address, whatever the scanned blocks hold (two logs of one emitting
\* address in one block, the same pool again in a later block).
C1_AtMostOncePerPair ==
    \A p \in PairStrings : exec_count[p] <= 1

\* C2: a block whose get_logs failed is never at or below the scan cursor: the
\* cursor is not advanced to it, so that it is scanned again on a later tick.
C2_FailedBlockNotPassed ==
    \A n \in fetch_failed : last_block < n

\* C3: at every iteration head of the loop the blocks find_real_new_pools was
\* called for are exactly the blocks above the start-up height and at most
\* last_block, each once and in increasing order (a gap of several blocks is
\* scanned whole, oldest first).
C3_NeverSkipNeverReorder ==
    pc = "head" =>
        /\ last_block >= start_block
        /\ Len(scanned) = last_block - start_block
        /\ \A i \in 1..Len(scanned) : scanned[i] = start_block + i

\* a loop head reached by a tick that scanned a gap of two blocks or more
C3_Witness ==
    /\ pc = "head"
    /\ last_block >= tick_from + 2
    /\ Len(scanned) >= 2

\* C4: last_block never decreases, and a tick whose reported height is equal
\* to or lower than last_block scans no block, starts no execution and leaves
\* last_block and processed_pools as they were.
C4_CursorMonotone ==
    [][ /\ last_block' >= last_block
        /\ (pc = "head" /\ pc' # "exited" /\ current_block' <= last_block)
              => /\ pc' = "head"
                 /\ UNCHANGED <<last_block, processed_pools, scanned, exec_count>> ]_vars

\* the loop head after a tick that reported a height below a cursor that had
\* moved
C4_Witness ==
    /\ pc = "head"
    /\ current_block < last_block
    /\ last_block > start_block

\* block n was scanned and every log of it was classified
FullyClassified(n) == n \in Range(scanned) /\ n \notin fetch_failed

\* C5: the cursor is at N or above only after every log of block N, and of every
\* earlier block above the start-up height, was classified and the resulting
\* events were executed.
C5_CursorOnlyAfterClassified ==
    \A n \in (start_block + 1)..last_block : FullyClassified(n)

\* C6: analyze_pool_creation never returns an event whose new token is in
\* known_tokens or is the wrapped-native address, also when the configured list
\* does not hold the wrapped-native address.
C6_NeverExcludedToken ==
    (pc = "classified" /\ classified # None) =>
        /\ classified[1].new_token_address \notin known_tokens
        /\ classified[1].new_token_address[1] # WETH_ADDRESS[1]

\* a log whose token A is the wrapped-native address, classified with a list
\* that lacks it, gave an event
C6_Witness ==
    /\ pc = "classified"
    /\ WETH_ADDRESS \notin known_tokens
    /\ Len(log_in.topics) >= 3
    /\ low_bytes(log_in.topics[2]) = WETH_ADDRESS[1]
    /\ classified # None

\* the exclusion rule of the specification
Excluded(token) == token \in known_tokens \/ token[1] = WETH_ADDRESS[1]

\* C7: for a log with at least 3 topics whose emitting address is not in the
\* processed set, the new token is token A if A is not excluded, otherwise token
\* B if B is not excluded, otherwise nothing is returned.
C7_SelectionRule ==
    (/\ pc = "classified"
     /\ Len(log_in.topics) >= 3
     /\ <<log_in.address, FALSE>> \notin processed_pools) =>
        LET A == <<log_in.topics[2][2], FALSE>>
            B == <<log_in.topics[3][2], FALSE>>
        IN  IF ~Excluded(A)
            THEN classified # None /\ classified[1].new_token_address = A
            ELSE IF ~Excluded(B)
            THEN classified # None /\ classified[1].new_token_address = B
            ELSE classified = None

\* token A excluded, token B not: the event names B
C7_Witness ==
    /\ pc = "classified"
    /\ Len(log_in.topics) >= 3
    /\ <<log_in.address, FALSE>> \notin processed_pools
    /\ Excluded(<<log_in.topics[2][2], FALSE>>)
    /\ ~Excluded(<<log_in.topics[3][2], FALSE>>)
    /\ log_in.topics[2][2] # log_in.topics[3][2]
    /\ classified # None
    /\ classified[1].new_token_address = <<log_in.topics[3][2], FALSE>>

\* the event of pair address p is still waiting in the for loop of line 309
Awaiting(p) ==
    pc = "exec" /\ \E i \in 1..Len(real_pools) : real_pools[i].pair_address = p

\* C8: once a block holding one log, of a novel pair address with a new token,
\* was scanned and its event executed, exactly one execution was started for it
\* and the pair address is in processed_pools; a later scan that returns the log
\* again starts no further execution.
C8_OneExecutionThenNone ==
    \A p \in solo :
        IF Awaiting(p)
        THEN exec_count[p] = 0
        ELSE exec_count[p] = 1 /\ p \in processed_pools

\* a later scan returned the log again and its block was worked through
C8_Witness ==
    \E p \in solo \cap replayed :
        /\ exec_count[p] = 1
        /\ pc = "head"

\* C9: a failed height fetch inside the loop is not fatal: the loop is at its
\* head again, with last_block and processed_pools as they were.
C9_HeightErrorNonFatal ==
    tick_err => pc = "head"

\* C10: every event find_real_new_pools returned for a block is handed to
\* execute_real_purchase once, in order, whatever the outcome of the earlier
\* ones: those handed followed by those waiting are the events of the block, and
\* the block is left only when none waits.
C10_EveryEventHanded ==
    /\ [](pc = "exec" => block_events = handed \o real_pools)
    /\ [][(pc = "exec" /\ pc' # "exec") => handed = block_events]_vars

\* an execution failed (gas price or broadcast) and the next event of the block
\* was handed to the executor
C10_Witness ==
    /\ pc = "exec"
    /\ stage = "Validating"
    /\ Len(handed) >= 2
    /\ outcome \in {"broadcast-failed", "gas-price-error"}

\* C11: when validation fails for an event, nothing is built or broadcast for it,
\* execute_real_purchase returns Ok to the driver, and no execution is ever
\* started again for the pair address of the event.
C11_RejectedNeverExecutedAgain ==
    /\ [][(stage = "Validating" /\ rejected' # rejected)
            => (stage' = "Idle" /\ outcome' = "validation-rejected" /\ sends' = sends)]_vars
    /\ [][\A p \in rejected : exec_count'[p] = exec_count[p]]_vars

\* the logs of a fetched block that carry the two address topics
WithAddressTopics(logs) == SelectSeq(logs, LAMBDA l : Len(l.topics) >= 3)

\* C12: a log with fewer than three topics yields no event, and it does not
\* abort its block: the events of the block are those of the remaining logs,
\* classified in the order the chain client gave them.
C12_ShortLogIgnored ==
    /\ (pc = "classified" /\ Len(log_in.topics) < 3) => classified = None
    /\ pc = "pools-found" =>
          \E times \in ClockReadings(Len(WithAddressTopics(fetched)), ScanTimes) :
              real_pools = classify_from(1, WithAddressTopics(fetched), bn_in,
                                         known_tokens, processed_pools, times)

\* a fetched block whose first log is short and whose later log gave an event
C12_Witness ==
    /\ pc = "pools-found"
    /\ Len(fetched) >= 2
    /\ Len(fetched[1].topics) < 3
    /\ real_pools # << >>

\* C13: the dedup check and the insertion into processed_pools are one atomic
\* step with the construction of the event: every pair address that
\* analyze_pool_creation returned an event for is already in processed_pools,
\* and no two events of one scan carry the same pair address.
C13_CheckAndSetAtomic ==
    /\ \A i \in 1..Len(block_events) : block_events[i].pair_address \in processed_pools
    /\ \A i, j \in 1..Len(block_events) :
          i # j => block_events[i].pair_address # block_events[j].pair_address

\* the stages of execute_real_purchase in the order of its code
StageOrder == <<"Validating", "Building", "Broadcasting", "Confirming">>

\* the steps taken for the current event are the first stages in order, each
\* entered once and each but the last one successful
StagesInOrder ==
    /\ Len(trace) <= Len(StageOrder)
    /\ \A i \in 1..Len(trace) :
          /\ trace[i][1] = StageOrder[i]
          /\ i < Len(trace) => trace[i][2] = "Ok"
    /\ stage # "Idle" => (Len(trace) < Len(StageOrder) /\ stage = StageOrder[Len(trace) + 1])

\* an execution has returned to the driver
Finished == pc = "exec" /\ stage = "Idle" /\ trace # << >>

\* C14 as stated: the stages come in order, and every execution ends in one
\* of confirmed-success, confirmed-failure, broadcast-failed, validation-rejected.
C14_FourOutcomes ==
    /\ StagesInOrder
    /\ Finished => outcome \in {"confirmed-success", "confirmed-failure",
                                 "broadcast-failed", "validation-rejected"}

\* C14 amended: the stages come in order, each entered at most once, a later
\* stage only after the earlier ones succeeded; an execution ends at validation
\* (rejected), at the gas price fetch (the error is returned), at the send
\* (broadcast failed) or at the receipt wait, where it is confirmed-success,
\* confirmed-failure, or left unconfirmed when the wait fails or gives no receipt.
C14_StagesAndOutcomes ==
    /\ StagesInOrder
    /\ Finished =>
          LET last == trace[Len(trace)]
          IN  \/ Len(trace) = 1 /\ last[2] # "Ok" /\ outcome = "validation-rejected"
              \/ Len(trace) = 2 /\ last[2] = "Err" /\ outcome = "gas-price-error"
              \/ Len(trace) = 3 /\ last[2] = "Err" /\ outcome = "broadcast-failed"
              \/ /\ Len(trace) = 4
                 /\ outcome = last[2]
                 /\ outcome \in {"confirmed-success", "confirmed-failure",
                                 "no-receipt", "wait-error"}

\* an execution that went through the four stages and ended without a receipt
C14_Witness ==
    /\ Finished
    /\ Len(trace) = 4
    /\ outcome = "wait-error"

\* the number of tx.send attempts recorded for the current event
SendsOfEvent == Cardinality({i \in 1..Len(trace) : trace[i][1] = "Broadcasting"})

\* C15: tx.send is attempted at most once for every event, whether the send
\* fails, the receipt shows a revert or the receipt wait fails; the sends of a
\* block never exceed the events of the block handed to the executor.
C15_NoRetry ==
    /\ SendsOfEvent <= 1
    /\ sends <= Len(handed)
    /\ (stage = "Idle" /\ outcome \in {"broadcast-failed", "confirmed-failure",
                                         "no-receipt", "wait-error"} /\ trace # << >>)
          => SendsOfEvent = 1

\* two events of one block whose sends both failed
C15_Witness ==
    /\ Finished
    /\ outcome = "broadcast-failed"
    /\ Len(handed) = 2
    /\ sends = 2

C17_GasPriceErrorRetried ==
    [][(pc = "exec" /\ stage = "Idle" /\ outcome = "gas-price-error")
          => (pc' # "exited" /\ last_block' < block_num)]_vars

\* the logs of block n on the chain that carry one of the two pool-creation
\* signatures, in chain order
PoolCreationLogs(chain, n) ==
    SelectSeq(chain, LAMBDA l : /\ l.block_number = n
                                /\ Len(l.topics) >= 1
                                /\ l.topics[1] \in {PAIR_CREATED_SIG, POOL_CREATED_V3_SIG})

\* C18: the scan of block N fetches, in chain order, every log of block N whose
\* first topic is the PairCreated or the PoolCreated signature and no log of
\* another block, and the events of the scan are those of these logs.
C18_BothSignaturesScanned ==
    pc = "pools-found" =>
        /\ fetched = PoolCreationLogs(chain_in, bn_in)
        /\ \E times \in ClockReadings(Len(fetched), ScanTimes) :
              real_pools = classify_from(1, PoolCreationLogs(chain_in, bn_in), bn_in,
                                         known_tokens, processed_pools, times)

\* C19: discovery and execution are strictly sequential: an execution starts
\* only when none is in progress and after the whole block was classified, and
\* while a block is polled for or scanned no execution is in progress and no
\* event of an earlier block is waiting.
C19_StrictlySequential ==
    /\ [](pc \in {"head", "scan"} => (stage = "Idle" /\ pool = None /\ real_pools = << >>))
    /\ [](stage # "Idle" => (pc = "exec" /\ pool # None))
    /\ [][exec_count' # exec_count =>
            /\ stage = "Idle"
            /\ pc = "exec"
            /\ scanned # << >>
            /\ scanned[Len(scanned)] = block_num
            /\ block_events = handed \o real_pools]_vars

\* the scan of a block that follows a block with an execution
C19_Witness ==
    /\ pc = "scan"
    /\ block_num >= tick_from + 2
    /\ \E p \in PairStrings : exec_count[p] >= 1

\* C20: when the height the loop has read reaches a block N above the start-up
\* height, find_real_new_pools is eventually called for N and last_block
\* eventually is at least N, provided the calls of the tick return.
C20_BlockEventuallyScanned ==
    \A N \in Heights :
        (N > start_block /\ current_block >= N)
            ~> (last_block >= N /\ N \in Range(scanned))

\* a loop head after a tick that scanned a block above the start-up height and
\* ran an execution
C20_Witness ==
    /\ pc = "head"
    /\ last_block > start_block
    /\ last_block \in Range(scanned)
    /\ \E p \in PairStrings : exec_count[p] >= 1

====
